---------------------------- MODULE Spec2Model ----------------------------
(***************************************************************************)
(* Model of the mermaid2gif pipeline: the LangGraph state machine of       *)
(* src/core/graph.py, the nodes it wires together, and the static Mermaid  *)
(* validator of src/engine/mermaid_validator.py.                           *)
(*                                                                         *)
(* A Python str is a sequence of one-character strings, so that strip,     *)
(* split, lower, startswith, count and replace are computed as the code    *)
(* computes them.  An Optional value is a record [some, val]; None is the  *)
(* record with some = FALSE.                                               *)
(***************************************************************************)
EXTENDS Integers, Sequences, FiniteSets, TLC

(***************************************************************************)
(* Bounds of the model.                                                    *)
(***************************************************************************)
MaxCeiling == 2

(***************************************************************************)
(* Python str operations on sequences of characters.                       *)
(***************************************************************************)
Whitespace == {" ", "\t", "\n", "\r"}

UpperChars == <<"A", "B", "C", "D", "E", "F", "G", "H", "I", "J", "K", "L", "M",
                "N", "O", "P", "Q", "R", "S", "T", "U", "V", "W", "X", "Y", "Z">>

LowerChars == <<"a", "b", "c", "d", "e", "f", "g", "h", "i", "j", "k", "l", "m",
                "n", "o", "p", "q", "r", "s", "t", "u", "v", "w", "x", "y", "z">>

LowerChar(c) ==
    IF \E i \in 1..26 : UpperChars[i] = c
    THEN LowerChars[CHOOSE i \in 1..26 : UpperChars[i] = c]
    ELSE c

Lower(s) == [i \in 1..Len(s) |-> LowerChar(s[i])]

RECURSIVE LStrip(_)
LStrip(s) ==
    IF s = <<>> THEN s
    ELSE IF Head(s) \in Whitespace THEN LStrip(Tail(s)) ELSE s

RECURSIVE RStrip(_)
RStrip(s) ==
    IF s = <<>> THEN s
    ELSE IF s[Len(s)] \in Whitespace THEN RStrip(SubSeq(s, 1, Len(s) - 1)) ELSE s

Strip(s) == RStrip(LStrip(s))

StartsWith(s, p) ==
    /\ Len(p) <= Len(s)
    /\ \A i \in 1..Len(p) : s[i] = p[i]

Contains(s, p) ==
    \E k \in 0..(Len(s) - Len(p)) : \A i \in 1..Len(p) : s[k + i] = p[i]

Count(s, c) == Cardinality({i \in 1..Len(s) : s[i] = c})

RECURSIVE Split(_, _)
Split(s, sep) ==
    IF \E i \in 1..Len(s) : s[i] = sep
    THEN LET i == CHOOSE j \in 1..Len(s) :
                      /\ s[j] = sep
                      /\ \A k \in 1..(j - 1) : s[k] # sep
         IN  <<SubSeq(s, 1, i - 1)>> \o Split(SubSeq(s, i + 1, Len(s)), sep)
    ELSE <<s>>

\* str.replace(pattern, ''): leftmost, non-overlapping occurrences removed
RECURSIVE Replace(_, _)
Replace(s, p) ==
    IF Len(s) < Len(p) THEN s
    ELSE IF StartsWith(s, p)
         THEN Replace(SubSeq(s, Len(p) + 1, Len(s)), p)
         ELSE <<Head(s)>> \o Replace(Tail(s), p)

(***************************************************************************)
(* Optional values and Python truthiness.                                  *)
(***************************************************************************)
NoneStr == [some |-> FALSE, val |-> <<>>]
Str(s) == [some |-> TRUE, val |-> s]
NoneList == [some |-> FALSE, val |-> <<>>]
List(l) == [some |-> TRUE, val |-> l]

\* bool(x) of an Optional[str] or Optional[list]
Truthy(x) == x.some /\ x.val # <<>>

(***************************************************************************)
(* MermaidValidator.validate                                               *)
(***************************************************************************)
valid_types ==
    << <<"g", "r", "a", "p", "h">>,
       <<"f", "l", "o", "w", "c", "h", "a", "r", "t">>,
       <<"s", "e", "q", "u", "e", "n", "c", "e", "d", "i", "a", "g", "r", "a", "m">>,
       <<"c", "l", "a", "s", "s", "D", "i", "a", "g", "r", "a", "m">>,
       <<"s", "t", "a", "t", "e", "D", "i", "a", "g", "r", "a", "m">>,
       <<"e", "r", "D", "i", "a", "g", "r", "a", "m">>,
       <<"j", "o", "u", "r", "n", "e", "y">>,
       <<"g", "a", "n", "t", "t">>,
       <<"p", "i", "e">>,
       <<"g", "i", "t", "G", "r", "a", "p", "h">>,
       <<"m", "i", "n", "d", "m", "a", "p">>,
       <<"t", "i", "m", "e", "l", "i", "n", "e">>,
       <<"q", "u", "a", "d", "r", "a", "n", "t", "C", "h", "a", "r", "t">> >>

er_patterns ==
    << <<"|", "|", "-", "-", "o", "{">>,
       <<"}", "o", "-", "-", "|", "|">>,
       <<"|", "|", "-", "-", "|", "|">>,
       <<"o", "{">>,
       <<"}", "o">>,
       <<"|", "{">>,
       <<"}", "|">> >>

MsgEmpty == "Empty Mermaid code"
MsgType == "Invalid or missing diagram type. Must start with one of: graph, flowchart, sequencediagram, classDiagram, stateDiagram, erDiagram, journey, gantt, pie, gitGraph, mindmap, timeline, quadrantChart"
MsgSingleLine == "Multiple statements on a single line without semicolons. Mermaid requires newlines or semicolons between statements."
MsgBrackets == "Mismatched brackets/parentheses"

ErrorDict(message, line) == [message |-> message, line |-> line]

\* first_line = lines[0].strip().lower()
FirstLine(lines) == Lower(Strip(lines[1]))

\* has_valid_type = any(first_line.startswith(t.lower()) for t in valid_types)
HasValidType(first_line) ==
    \E k \in 1..Len(valid_types) : StartsWith(first_line, Lower(valid_types[k]))

\* the single-line check of lines 88-93
SingleLineError(lines, first_line) ==
    /\ Len(lines) = 1
    /\ \/ Contains(first_line, <<"-", "-", ">">>)
       \/ Contains(first_line, <<"-", "-", "-">>)
    /\ ~Contains(first_line, <<";">>)

RECURSIVE RemovePatterns(_, _)
RemovePatterns(line, patterns) ==
    IF patterns = <<>> THEN line
    ELSE RemovePatterns(Replace(line, Head(patterns)), Tail(patterns))

\* line_without_er of lines 108-113
LineWithoutEr(stripped, first_line) ==
    IF Contains(first_line, <<"e", "r", "d", "i", "a", "g", "r", "a", "m">>)
    THEN RemovePatterns(stripped, er_patterns)
    ELSE stripped

OpenBrackets(l) == Count(l, "[") + Count(l, "(") + Count(l, "{")
CloseBrackets(l) == Count(l, "]") + Count(l, ")") + Count(l, "}")

\* the body of the loop of lines 96-122 for line number i: the errors it appends
LineErrors(line, i, first_line) ==
    LET stripped == Strip(line)
    IN  IF stripped = <<>> \/ StartsWith(stripped, <<"%", "%">>)
        THEN <<>>
        ELSE LET l == LineWithoutEr(stripped, first_line)
             IN  IF OpenBrackets(l) # CloseBrackets(l)
                 THEN <<ErrorDict(MsgBrackets, i)>>
                 ELSE <<>>

RECURSIVE BracketErrors(_, _, _)
BracketErrors(lines, i, first_line) ==
    IF i > Len(lines) THEN <<>>
    ELSE LineErrors(lines[i], i, first_line) \o BracketErrors(lines, i + 1, first_line)

\* the brackets are counted over the whole source instead of line by line
ValidateErrorsWholeSource(mermaid_code) ==
    LET lines == Split(Strip(mermaid_code), "\n")
        first_line == FirstLine(lines)
    IN  (IF HasValidType(first_line) THEN <<>> ELSE <<ErrorDict(MsgType, 1)>>)
        \o (IF SingleLineError(lines, first_line)
            THEN <<ErrorDict(MsgSingleLine, 1)>> ELSE <<>>)
        \o (IF OpenBrackets(LineWithoutEr(mermaid_code, first_line))
                  # CloseBrackets(LineWithoutEr(mermaid_code, first_line))
            THEN <<ErrorDict(MsgBrackets, 1)>> ELSE <<>>)

\* the errors list built by lines 66-122
ValidateErrors(mermaid_code) ==
    LET lines == Split(Strip(mermaid_code), "\n")
        first_line == FirstLine(lines)
    IN  (IF HasValidType(first_line) THEN <<>> ELSE <<ErrorDict(MsgType, 1)>>)
        \o (IF SingleLineError(lines, first_line)
            THEN <<ErrorDict(MsgSingleLine, 1)>> ELSE <<>>)
        \o BracketErrors(lines, 1, first_line)

\* validate(mermaid_code) -> (is_valid, errors), for a str argument
validate(mermaid_code) ==
    IF mermaid_code = <<>> \/ Strip(mermaid_code) = <<>>
    THEN [is_valid |-> FALSE, errors |-> List(<<ErrorDict(MsgEmpty, 0)>>)]
    ELSE LET errors == ValidateErrors(mermaid_code)
         IN  IF errors # <<>>
             THEN [is_valid |-> FALSE, errors |-> List(errors)]
             ELSE [is_valid |-> TRUE, errors |-> NoneList]

(***************************************************************************)
(* Diagram sources and prompts the runs are started with.                  *)
(***************************************************************************)
SrcGraphTD ==
    <<"g", "r", "a", "p", "h", " ", "T", "D", ";", " ", "A", "-", "-", ">",
    "B", ";">>

SrcNoType ==
    <<"A", "[", "S", "t", "e", "p", " ", "(", "1", ")", "]", " ", "-", "-",
    ">", " ", "B", "[", "E", "n", "d", "]">>

SrcRepaired ==
    <<"g", "r", "a", "p", "h", " ", "T", "D", "\n", "A", "[", "S", "t", "e",
    "p", " ", "1", "]", " ", "-", "-", ">", " ", "B", "[", "E", "n", "d",
    "]">>

SrcEmpty ==
    <<>>

SrcBlank ==
    <<" ", "\n">>

SrcUnclosed ==
    <<"g", "r", "a", "p", "h", " ", "T", "D", "\n", "A", "[", "S", "t", "a",
    "r", "t", " ", "-", "-", ">", " ", "B", "[", "E", "n", "d", "]">>

SrcER ==
    <<"e", "r", "D", "i", "a", "g", "r", "a", "m", "\n", "T", " ", "|", "|",
    "-", "-", "o", "{", " ", "D", " ", ":", " ", "h", "a", "s">>

SrcBlock ==
    <<"c", "l", "a", "s", "s", "D", "i", "a", "g", "r", "a", "m", "\n", "c",
    "l", "a", "s", "s", " ", "A", " ", "{", "\n", "+", "x", "\n", "}">>

SrcComment ==
    <<"%", "%", " ", "c", "\n", "g", "r", "a", "p", "h", " ", "T", "D",
    "\n", "A", "-", "-", ">", "B">>

PromptText ==
    <<"A", " ", "t", "o", " ", "B">>

Sources ==
    {SrcGraphTD, SrcNoType, SrcRepaired, SrcEmpty, SrcBlank, SrcUnclosed,
     SrcER, SrcBlock, SrcComment}

Prompts == {SrcEmpty, PromptText}
(***************************************************************************)
(* Configuration: get_config() returns an object on which the fix agent    *)
(* and the retry edge read max_retry_attempts.  The Config class declares  *)
(* no such field, so the attribute is absent unless the configuration      *)
(* object in use provides it.                                              *)
(***************************************************************************)
Configs ==
    {[has_max_retry_attempts |-> FALSE, max_retry_attempts |-> 0]}
    \cup {[has_max_retry_attempts |-> TRUE, max_retry_attempts |-> n] :
             n \in 0..MaxCeiling}

(***************************************************************************)
(* The pipeline record (GraphState) and the run.                           *)
(***************************************************************************)
VARIABLES
    state,      \* the GraphState dict threaded through the nodes
    config,     \* the object get_config() returns
    pc,         \* node about to run; "END" after a terminal node, "raised"
                \* when an exception left graph.invoke
    raised,     \* class name of the exception that ended the run, or ""
    raised_text, \* str(e) of that exception, or ""
    trace,      \* the nodes entered so far, in order
    calls,      \* external calls, browser launches and fix-agent
                \* completions so far
    cli,        \* what main has printed and the code it exited with
    resources   \* the Playwright objects the stages started and have not
                \* released

vars == <<state, config, pc, raised, raised_text, trace, calls, cli, resources>>

\* longest run: router, intent, validator, MaxCeiling+1 fix/validator rounds,
\* six pipeline nodes and a terminal node
MaxTrace == 2 * MaxCeiling + 12

NoManifest == [some |-> FALSE, duration |-> 0, preset |-> ""]
Manifest(d, p) == [some |-> TRUE, duration |-> d, preset |-> p]
DefaultManifest == Manifest(5, "default")
\* the empty dict: a directive with no keys
EmptyManifest == [some |-> TRUE, duration |-> 0, preset |-> ""]
\* bool(animation_manifest): neither None nor {}
ManifestTruthy(m) == m.some /\ m # EmptyManifest

create_initial_state(raw_input, input_type) ==
    [raw_input |-> raw_input,
     raw_input_type |-> input_type,
     mermaid_code |-> NoneStr,
     animation_manifest |-> NoManifest,
     validation_errors |-> NoneList,
     diagram_rendered |-> FALSE,
     animation_applied |-> FALSE,
     video_path |-> NoneStr,
     gif_path |-> NoneStr,
     errors |-> <<>>,
     artifacts |-> {},
     retry_count |-> 0]

\* nothing called, launched or completed yet
NoCalls ==
    [intent_llm |-> 0, fix_llm |-> 0, fix_ok |-> 0,
     animation_browser |-> 0, capture_browser |-> 0,
     fix_request |-> "", intent_animation |-> "none",
     effect_period |-> 0, capture_duration |-> 0, clip_duration |-> 0]

\* main is still inside graph.invoke: nothing printed, no exit code
NotExited ==
    [exited |-> FALSE, exit_code |-> 0, output |-> <<>>, gif_found |-> FALSE]

\* str() of the TypeError of len(None)
MsgNoLen == "object of type 'NoneType' has no len()"
\* str() of the AttributeError of None.get(...)
MsgNoneGet == "'NoneType' object has no attribute 'get'"

\* str() of the AttributeError of config.max_retry_attempts
MsgNoAttribute == "'Config' object has no attribute 'max_retry_attempts'"

Init ==
    /\ \/ \E p \in Prompts : state = create_initial_state(p, "text")
       \/ \E s \in Sources : state = create_initial_state(s, "mermaid")
    /\ config \in Configs
    /\ pc = "input_router"
    /\ raised = ""
    /\ raised_text = ""
    /\ trace = <<>>
    /\ calls = NoCalls
    /\ cli = NotExited
    /\ resources = {}

Enter(node) == IF Len(trace) < MaxTrace THEN Append(trace, node) ELSE trace

Bump(fields) ==
    [f \in DOMAIN calls |->
        IF f \in fields THEN (IF calls[f] < MaxTrace THEN calls[f] + 1 ELSE calls[f])
        ELSE calls[f]]

\* an exception of class cls leaves the node and graph.invoke with it
Raise(cls, msg) ==
    /\ pc' = "raised"
    /\ raised' = cls
    /\ raised_text' = msg

(***************************************************************************)
(* Conditional edges of graph.py                                           *)
(***************************************************************************)
\* the edge sends every input to generation
should_generate_mermaid_always(st) == "intent_agent"

should_generate_mermaid(st) ==
    IF st.raw_input_type = "mermaid" THEN "mermaid_validator" ELSE "intent_agent"

\* the edge ignores the reported errors
should_fix_mermaid_never(st) == "animation_planner"

should_fix_mermaid(st) ==
    IF Truthy(st.validation_errors) THEN "fix_mermaid" ELSE "animation_planner"

\* the edge as the docstring of create_graph draws it (retry >= ceiling)
should_retry_validation_ge(st, cfg) ==
    IF st.retry_count >= cfg.max_retry_attempts
    THEN "end_fail" ELSE "mermaid_validator"

should_retry_validation(st, cfg) ==
    IF st.retry_count > cfg.max_retry_attempts
    THEN "end_fail" ELSE "mermaid_validator"

\* the capture stage wired ahead of the animation stage
add_edge_swapped(node) ==
    CASE node = "intent_agent" -> "mermaid_validator"
      [] node = "animation_planner" -> "mermaid_renderer"
      [] node = "mermaid_renderer" -> "capture_controller"
      [] node = "capture_controller" -> "animation_applicator"
      [] node = "animation_applicator" -> "ffmpeg_transcoder"
      [] node = "ffmpeg_transcoder" -> "end_success"
      [] node \in {"end_success", "end_fail"} -> "END"

\* the unconditional edges added by create_graph
add_edge(node) ==
    CASE node = "intent_agent" -> "mermaid_validator"
      [] node = "animation_planner" -> "mermaid_renderer"
      [] node = "mermaid_renderer" -> "animation_applicator"
      [] node = "animation_applicator" -> "capture_controller"
      [] node = "capture_controller" -> "ffmpeg_transcoder"
      [] node = "ffmpeg_transcoder" -> "end_success"
      [] node \in {"end_success", "end_fail"} -> "END"

(***************************************************************************)
(* input_router                                                            *)
(***************************************************************************)
RouteInput(st) ==
    IF st.raw_input_type = "mermaid"
    THEN [st EXCEPT !.mermaid_code = Str(st.raw_input),
                    !.animation_manifest = DefaultManifest]
    ELSE st

input_router ==
    /\ pc = "input_router"
    /\ trace' = Enter("input_router")
    /\ state' = RouteInput(state)
    /\ pc' = should_generate_mermaid(state')
    /\ UNCHANGED <<config, raised, raised_text, calls, cli, resources>>

(***************************************************************************)
(* The external text-completion service: what litellm.completion and the   *)
(* parsing of its response can yield.                                      *)
(***************************************************************************)
LLMFailures ==
    {[cls |-> "LLMTimeoutError", msg |-> "LLM request timed out: <timeout>"],
     [cls |-> "LLMError", msg |-> "LLM request failed: <error>"],
     [cls |-> "LLMResponseError",
      msg |-> "Failed to parse LLM response as JSON: <error>"],
     [cls |-> "LLMResponseError", msg |-> "LLM response missing 'mermaid' key"]}

\* result["mermaid"]: JSON null or a string
MermaidPayloads == {NoneStr} \cup {Str(s) : s \in Sources}

\* the "animation" member of the response: key absent, JSON null, {} or a
\* directive
AnimationPayloads ==
    {[given |-> FALSE, value |-> NoManifest]}
    \cup {[given |-> TRUE, value |-> v] :
             v \in {NoManifest, EmptyManifest, DefaultManifest,
                    Manifest(3, "fast")}}

\* result.get("animation", {"duration": 5.0, "preset": "default"})
ResultGet(animation) ==
    IF animation.given THEN animation.value ELSE DefaultManifest

\* the response is counted, and whether it carried an "animation" member
\* kept
IntentResponse(animation) ==
    [Bump({"intent_llm"}) EXCEPT
        !.intent_animation = IF animation.given THEN "present" ELSE "absent"]

(***************************************************************************)
(* intent_agent                                                            *)
(***************************************************************************)
\* the except clause re-raises without recording the failure
IntentFailSilent(st, msg) == st

IntentFail(st, msg) ==
    [st EXCEPT !.errors = Append(@, "Intent agent failed: " \o msg)]

IntentSuccess(st, mermaid, animation) ==
    [st EXCEPT !.mermaid_code = mermaid, !.animation_manifest = animation]

intent_agent ==
    /\ pc = "intent_agent"
    /\ trace' = Enter("intent_agent")
    /\ UNCHANGED <<config, cli, resources>>
    /\ IF state.raw_input = <<>>
       THEN /\ state' = IntentFail(state, "No raw_input in state")
            /\ Raise("LLMError", "No raw_input in state")
            /\ UNCHANGED calls
       ELSE \/ \E f \in LLMFailures :
                 /\ calls' = Bump({"intent_llm"})
                 /\ state' = IntentFail(state, f.msg)
                 /\ Raise(f.cls, f.msg)
            \/ \E m \in MermaidPayloads, a \in AnimationPayloads :
                 /\ calls' = IntentResponse(a)
                 /\ IF ~m.some
                    THEN \* len(None) in the logger.end call, after the two
                         \* assignments
                         /\ state' = IntentFail(
                                IntentSuccess(state, m, ResultGet(a)),
                                MsgNoLen)
                         /\ Raise("TypeError", MsgNoLen)
                    ELSE IF ~ResultGet(a).some
                    THEN \* None.get("preset") in the logger.end call
                         /\ state' = IntentFail(
                                IntentSuccess(state, m, ResultGet(a)),
                                MsgNoneGet)
                         /\ Raise("AttributeError", MsgNoneGet)
                    ELSE /\ state' = IntentSuccess(state, m, ResultGet(a))
                         /\ pc' = add_edge("intent_agent")
                         /\ UNCHANGED <<raised, raised_text>>

(***************************************************************************)
(* mermaid_validator (the node)                                            *)
(***************************************************************************)
ValidatorFail(st, msg) ==
    [st EXCEPT !.errors = Append(@, "Validation failed: " \o msg),
               !.validation_errors =
                   List(<<ErrorDict("Validation error: " \o msg, 0)>>)]

\* validate is pure: its result on each source the runs can hold, computed
\* once
validate_results == [s \in Sources |-> validate(s)]

\* the node returns the record without storing the findings
ValidatorResultStale(st) == st

ValidatorResult(st) ==
    LET r == validate_results[st.mermaid_code.val]
    IN  [st EXCEPT !.validation_errors =
                       IF r.is_valid THEN NoneList ELSE r.errors]

mermaid_validator ==
    /\ pc = "mermaid_validator"
    /\ trace' = Enter("mermaid_validator")
    /\ UNCHANGED <<config, calls, cli, resources>>
    /\ IF ~state.mermaid_code.some
       THEN \* len(None) in the logger.start call, before the try
            /\ Raise("TypeError", MsgNoLen)
            /\ UNCHANGED state
       ELSE IF ~Truthy(state.mermaid_code)
       THEN /\ state' = ValidatorFail(state, "No Mermaid code in state")
            /\ Raise("ValidationError", "No Mermaid code in state")
       ELSE /\ state' = ValidatorResult(state)
            /\ pc' = should_fix_mermaid(state')
            /\ UNCHANGED <<raised, raised_text>>

(***************************************************************************)
(* mermaid_fix_agent                                                       *)
(***************************************************************************)
\* the check gives up one attempt early
RetryLimitReachedEarly(retry_count, max_retries) == retry_count + 1 >= max_retries

\* the check lets one more attempt through
RetryLimitReachedLate(retry_count, max_retries) == retry_count > max_retries

RetryLimitReached(retry_count, max_retries) == retry_count >= max_retries

\* str() of RetryExhaustedError("mermaid_fix_agent", max_retries)
MsgRetryExhausted(max_retries) ==
    "Retry limit exceeded in node 'mermaid_fix_agent' (max: "
        \o ToString(max_retries) \o ")"

MsgMaxRetries(max_retries) ==
    "Max retries (" \o ToString(max_retries) \o ") exceeded in fix agent"

\* both except clauses record the exhaustion
FixExhaustedTwice(st, max_retries) ==
    [st EXCEPT !.errors =
        Append(Append(@, MsgMaxRetries(max_retries)),
               "Fix agent failed: " \o MsgRetryExhausted(max_retries))]

FixExhausted(st, max_retries) ==
    [st EXCEPT !.errors = Append(@, MsgMaxRetries(max_retries))]

FixFail(st, msg) ==
    [st EXCEPT !.errors = Append(@, "Fix agent failed: " \o msg)]

\* the update forgets to count the attempt
FixSuccessNoIncrement(st, fixed_mermaid) ==
    [st EXCEPT !.mermaid_code = fixed_mermaid,
               !.validation_errors = NoneList]

\* the update leaves the reported errors in place
FixSuccessKeepsErrors(st, fixed_mermaid) ==
    [st EXCEPT !.mermaid_code = fixed_mermaid,
               !.retry_count = @ + 1]

FixSuccess(st, fixed_mermaid) ==
    [st EXCEPT !.mermaid_code = fixed_mermaid,
               !.retry_count = @ + 1,
               !.validation_errors = NoneList]

\* dict.get(key, default)
Get(d, key, default) == IF key \in DOMAIN d THEN d[key] ELSE default

\* one entry of the numbered list: f"{i}. [{error_type}] Line {line}: {message}"
FormatError(i, error) ==
    ToString(i) \o ". [" \o Get(error, "type", "Unknown") \o "] Line "
        \o (IF "line" \in DOMAIN error THEN ToString(error.line) ELSE "?")
        \o ": " \o Get(error, "message", "No message")

RECURSIVE FormatErrorsFrom(_, _)
FormatErrorsFrom(errors, i) ==
    IF i = Len(errors) THEN FormatError(i, errors[i])
    ELSE FormatError(i, errors[i]) \o "\n" \o FormatErrorsFrom(errors, i + 1)

format_validation_errors(errors) ==
    IF errors = <<>> THEN "No specific errors provided"
    ELSE FormatErrorsFrom(errors, 1)

\* the completion call: counted, and the "Errors found" text of its user
\* message kept
FixRequest(fields, st) ==
    [Bump(fields) EXCEPT
        !.fix_request = format_validation_errors(st.validation_errors.val)]

mermaid_fix_agent ==
    /\ pc = "fix_mermaid"
    /\ trace' = Enter("fix_mermaid")
    /\ UNCHANGED <<config, cli, resources>>
    /\ IF ~config.has_max_retry_attempts
       THEN \* config.max_retry_attempts, before the try
            /\ Raise("AttributeError", MsgNoAttribute)
            /\ UNCHANGED <<state, calls>>
       ELSE IF ~state.validation_errors.some
       THEN \* len(None) in the logger.start call, before the try
            /\ Raise("TypeError", MsgNoLen)
            /\ UNCHANGED <<state, calls>>
       ELSE IF RetryLimitReached(state.retry_count, config.max_retry_attempts)
       THEN /\ state' = FixExhausted(state, config.max_retry_attempts)
            /\ Raise("RetryExhaustedError",
                     MsgRetryExhausted(config.max_retry_attempts))
            /\ UNCHANGED calls
       ELSE IF ~Truthy(state.mermaid_code)
       THEN /\ state' = FixFail(state, "No mermaid_code in state")
            /\ Raise("LLMError", "No mermaid_code in state")
            /\ UNCHANGED calls
       ELSE IF ~Truthy(state.validation_errors)
       THEN /\ state' = FixFail(state, "No validation_errors in state")
            /\ Raise("LLMError", "No validation_errors in state")
            /\ UNCHANGED calls
       ELSE \/ \E f \in LLMFailures :
                 /\ calls' = FixRequest({"fix_llm"}, state)
                 /\ state' = FixFail(state, f.msg)
                 /\ Raise(f.cls, f.msg)
            \/ \E m \in MermaidPayloads :
                 IF ~m.some
                 THEN \* len(None) in the logger.end call, after the three
                      \* assignments
                      /\ calls' = FixRequest({"fix_llm"}, state)
                      /\ state' = FixFail(FixSuccess(state, m), MsgNoLen)
                      /\ Raise("TypeError", MsgNoLen)
                 ELSE /\ calls' = FixRequest({"fix_llm", "fix_ok"}, state)
                      /\ state' = FixSuccess(state, m)
                      /\ pc' = should_retry_validation(state', config)
                      /\ UNCHANGED <<raised, raised_text>>
(***************************************************************************)
(* animation_planner                                                       *)
(***************************************************************************)
\* the planner leaves the directive as it found it
PlanAnimationKeep(st) == st

PlanAnimation(st) ==
    IF ~ManifestTruthy(st.animation_manifest)
    THEN [st EXCEPT !.animation_manifest = DefaultManifest]
    ELSE st

animation_planner ==
    /\ pc = "animation_planner"
    /\ trace' = Enter("animation_planner")
    /\ state' = PlanAnimation(state)
    /\ pc' = add_edge("animation_planner")
    /\ UNCHANGED <<config, raised, raised_text, calls, cli, resources>>

(***************************************************************************)
(* render_mermaid_node / _render_mermaid_async                             *)
(***************************************************************************)
\* what MermaidRenderer.render can raise: the browser launch or a page call
\* failing, or the RuntimeError of line 172
RenderFailures ==
    {[cls |-> "PlaywrightError", msg |-> "<playwright error>"],
     [cls |-> "RuntimeError", msg |-> "Mermaid rendering failed: <error>"]}

RenderSuccess(st) ==
    [st EXCEPT !.artifacts = @ \cup {"render_html"},
               !.diagram_rendered = TRUE]

\* the except clause of lines 65-69 logs and re-raises; render leaves
\* nothing open: `async with async_playwright()` stops the driver and the
\* finally clause closes the browser with its pages
RenderFail(st) == st

mermaid_renderer ==
    /\ pc = "mermaid_renderer"
    /\ trace' = Enter("mermaid_renderer")
    /\ UNCHANGED <<config, calls, cli, resources>>
    /\ IF ~Truthy(state.mermaid_code)
       THEN /\ Raise("ValueError", "No mermaid_code found in state")
            /\ UNCHANGED state
       ELSE \/ \E f \in RenderFailures :
                 /\ state' = RenderFail(state)
                 /\ Raise(f.cls, f.msg)
            \/ /\ state' = RenderSuccess(state)
               /\ pc' = add_edge("mermaid_renderer")
               /\ UNCHANGED <<raised, raised_text>>

(***************************************************************************)
(* apply_animation_node / _apply_animation_async                           *)
(***************************************************************************)
\* the Playwright objects of stage that are still open
Held(stage, kinds) == {[stage |-> stage, resource |-> k] : k \in kinds}

\* what launch leaves open when it fails: __aexit__ is not called when
\* __aenter__ raises.  start() failed; chromium.launch failed; new_page
\* failed.
AnimationLaunchLeaks == {{}, {"playwright"}, {"playwright", "browser"}}

\* close() closes the page and the browser; nothing stops the driver that
\* launch started
AnimationCloseLeaks == {"playwright"}

\* what AnimationApplicator can raise: launch wraps everything in
\* AnimationError; apply_flow_animation lets RenderingError through
AnimationFailures ==
    {[cls |-> "AnimationError", msg |-> "Failed to launch browser: <error>",
      held |-> h] : h \in AnimationLaunchLeaks}
    \cup
    {[cls |-> "AnimationError", msg |-> "Failed to apply animation: <error>",
      held |-> AnimationCloseLeaks],
     [cls |-> "RenderingError", msg |-> "Failed to render diagram: <error>",
      held |-> AnimationCloseLeaks]}

\* the except clause marks the animation as applied
AnimationFailSetsFlag(st, msg) ==
    [st EXCEPT !.errors = Append(@, "Animation application failed: " \o msg),
               !.animation_applied = TRUE]

AnimationFail(st, msg) ==
    [st EXCEPT !.errors = Append(@, "Animation application failed: " \o msg),
               !.animation_applied = FALSE]

AnimationSuccess(st) == [st EXCEPT !.animation_applied = TRUE]

MsgNotRendered == "Diagram must be rendered before applying animation"

\* the cycle of the CSS effect: "animation: flowAnimation 2s linear infinite"
FlowAnimationSeconds == 2

\* the browser was launched and the effect installed on the page
EffectApplied ==
    [Bump({"animation_browser"}) EXCEPT !.effect_period = FlowAnimationSeconds]

\* the browser is entered first and the prerequisites are checked after
animation_applicator_launch_first ==
    /\ pc = "animation_applicator"
    /\ trace' = Enter("animation_applicator")
    /\ UNCHANGED <<config, cli>>
    /\ calls' = Bump({"animation_browser"})
    /\ IF ~state.diagram_rendered
       THEN /\ state' = AnimationFail(state, MsgNotRendered)
            /\ Raise("AnimationError", MsgNotRendered)
            /\ resources' = resources \cup Held("animation_applicator", AnimationCloseLeaks)
       ELSE IF ~Truthy(state.mermaid_code)
       THEN /\ state' = AnimationFail(state, "No Mermaid code in state")
            /\ Raise("AnimationError", "No Mermaid code in state")
            /\ resources' = resources \cup Held("animation_applicator", AnimationCloseLeaks)
       ELSE \/ \E f \in AnimationFailures :
                 /\ state' = AnimationFail(state, f.msg)
                 /\ Raise(f.cls, f.msg)
                 /\ resources' = resources \cup Held("animation_applicator", f.held)
            \/ /\ state' = AnimationSuccess(state)
               /\ pc' = add_edge("animation_applicator")
               /\ resources' = resources \cup Held("animation_applicator", AnimationCloseLeaks)
               /\ UNCHANGED <<raised, raised_text>>

animation_applicator ==
    /\ pc = "animation_applicator"
    /\ trace' = Enter("animation_applicator")
    /\ UNCHANGED <<config, cli>>
    /\ IF ~state.diagram_rendered
       THEN /\ state' = AnimationFail(state, MsgNotRendered)
            /\ Raise("AnimationError", MsgNotRendered)
            /\ UNCHANGED <<calls, resources>>
       ELSE IF ~Truthy(state.mermaid_code)
       THEN /\ state' = AnimationFail(state, "No Mermaid code in state")
            /\ Raise("AnimationError", "No Mermaid code in state")
            /\ UNCHANGED <<calls, resources>>
       ELSE \* async with AnimationApplicator(): launch, apply, close
            \/ \E f \in AnimationFailures :
                 /\ calls' = Bump({"animation_browser"})
                 /\ state' = AnimationFail(state, f.msg)
                 /\ Raise(f.cls, f.msg)
                 /\ resources' =
                        resources \cup Held("animation_applicator", f.held)
            \/ /\ calls' = EffectApplied
               /\ state' = AnimationSuccess(state)
               /\ pc' = add_edge("animation_applicator")
               /\ resources' =
                      resources \cup Held("animation_applicator",
                                          AnimationCloseLeaks)
               /\ UNCHANGED <<raised, raised_text>>

(***************************************************************************)
(* capture_video_node / _capture_video_async                               *)
(***************************************************************************)
\* what launch leaves open when it fails: start() failed; chromium.launch
\* failed; new_context failed; new_page failed
CaptureLaunchLeaks ==
    {{}, {"playwright"}, {"playwright", "browser"},
     {"playwright", "browser", "context"}}

\* close() closes the page, the context and the browser, never the driver
CaptureCloseLeaks == {"playwright"}

CaptureFailures ==
    {[cls |-> "CaptureError",
      msg |-> "Failed to launch browser for capture: <error>",
      held |-> h] : h \in CaptureLaunchLeaks}
    \cup
    {[cls |-> "CaptureError",
      msg |-> "Unexpected error during capture: <error>",
      held |-> CaptureCloseLeaks],
     [cls |-> "RenderingError", msg |-> "Import failed: <error>",
      held |-> CaptureCloseLeaks],
     [cls |-> "CaptureError", msg |-> "Video file was not created",
      held |-> CaptureCloseLeaks]}

VideoFile == <<"o", "u", "t", ".", "w", "e", "b", "m">>
GifFile == <<"o", "u", "t", ".", "g", "i", "f">>

CaptureFail(st, msg) ==
    [st EXCEPT !.errors = Append(@, "Video capture failed: " \o msg)]

CaptureSuccess(st) ==
    [st EXCEPT !.video_path = Str(VideoFile),
               !.artifacts = @ \cup {"video_duration", "video_size_bytes"}]

\* animation_manifest.get("duration", 5.0)
ManifestDuration(m) == IF m = EmptyManifest THEN 5 ELSE m.duration

\* the browser is launched and capture_animation called with the duration
CaptureStarted(st) ==
    [Bump({"capture_browser"}) EXCEPT
        !.capture_duration = ManifestDuration(st.animation_manifest)]

MsgNotRenderedForCapture == "Diagram must be rendered before capture"
MsgNotAnimated == "Animation must be applied before capture"

capture_controller ==
    /\ pc = "capture_controller"
    /\ trace' = Enter("capture_controller")
    /\ UNCHANGED <<config, cli>>
    /\ IF ~state.diagram_rendered
       THEN /\ state' = CaptureFail(state, MsgNotRenderedForCapture)
            /\ Raise("CaptureError", MsgNotRenderedForCapture)
            /\ UNCHANGED <<calls, resources>>
       ELSE IF ~state.animation_applied
       THEN /\ state' = CaptureFail(state, MsgNotAnimated)
            /\ Raise("CaptureError", MsgNotAnimated)
            /\ UNCHANGED <<calls, resources>>
       ELSE IF ~Truthy(state.mermaid_code)
       THEN /\ state' = CaptureFail(state, "No Mermaid code in state")
            /\ Raise("CaptureError", "No Mermaid code in state")
            /\ UNCHANGED <<calls, resources>>
       ELSE IF ~state.animation_manifest.some
       THEN \* None.get("duration", 5.0), inside the try
            /\ state' = CaptureFail(state, MsgNoneGet)
            /\ Raise("AttributeError", MsgNoneGet)
            /\ UNCHANGED <<calls, resources>>
       ELSE \* async with CaptureController(): launch, capture, close
            /\ calls' = CaptureStarted(state)
            /\ \/ \E f \in CaptureFailures :
                    /\ state' = CaptureFail(state, f.msg)
                    /\ Raise(f.cls, f.msg)
                    /\ resources' =
                           resources \cup Held("capture_controller", f.held)
               \/ /\ state' = CaptureSuccess(state)
                  /\ pc' = add_edge("capture_controller")
                  /\ resources' =
                         resources \cup Held("capture_controller",
                                             CaptureCloseLeaks)
                  /\ UNCHANGED <<raised, raised_text>>

(***************************************************************************)
(* transcode_to_gif_node                                                   *)
(***************************************************************************)
TranscodeFailures ==
    {[cls |-> "FFmpegError", msg |-> "Video file not found: out.webm"],
     [cls |-> "GIFGenerationError", msg |-> "GIF file was not created"],
     [cls |-> "GIFGenerationError", msg |-> "GIF file is empty"],
     [cls |-> "GIFGenerationError",
      msg |-> "Error during GIF generation: <error>"],
     [cls |-> "FFmpegError", msg |-> "Failed to get video info: <error>"]}

TranscodeFail(st, msg) ==
    [st EXCEPT !.errors = Append(@, "GIF generation failed: " \o msg)]

\* the node records the artifacts but not the path of the GIF
TranscodeSuccessNoPath(st) ==
    [st EXCEPT !.artifacts = @ \cup {"video_info", "gif_size_bytes"}]

TranscodeSuccess(st) ==
    [st EXCEPT !.gif_path = Str(GifFile),
               !.artifacts = @ \cup {"video_info", "gif_size_bytes"}]

\* Config.default_animation_duration, the t= of ffmpeg.input
default_animation_duration == 5

\* convert_to_gif cut its clip from the video
ClipTaken == [calls EXCEPT !.clip_duration = default_animation_duration]

ffmpeg_transcoder ==
    /\ pc = "ffmpeg_transcoder"
    /\ trace' = Enter("ffmpeg_transcoder")
    /\ UNCHANGED <<config, cli, resources>>
    /\ IF ~Truthy(state.video_path)
       THEN /\ state' = TranscodeFail(state, "No video_path in state")
            /\ Raise("GIFGenerationError", "No video_path in state")
            /\ UNCHANGED calls
       ELSE \/ \E f \in TranscodeFailures :
                 /\ state' = TranscodeFail(state, f.msg)
                 /\ Raise(f.cls, f.msg)
                 /\ UNCHANGED calls
            \/ /\ calls' = ClipTaken
               /\ state' = TranscodeSuccess(state)
               /\ pc' = add_edge("ffmpeg_transcoder")
               /\ UNCHANGED <<raised, raised_text>>

(***************************************************************************)
(* Terminal nodes end_success and end_fail: log, return the state, and     *)
(* the edge to END hands it back to the caller of graph.invoke.            *)
(***************************************************************************)
TerminalNodes == {"end_success", "end_fail"}

end_node ==
    /\ pc \in TerminalNodes
    /\ trace' = Enter(pc)
    /\ pc' = add_edge(pc)
    /\ UNCHANGED <<state, config, raised, raised_text, calls, cli, resources>>

(***************************************************************************)
(* The user cancels (Ctrl-C) while graph.invoke is running.  The stages'   *)
(* handlers catch Exception only, so KeyboardInterrupt passes through them *)
(* without a message being appended and leaves graph.invoke.               *)
(***************************************************************************)
keyboard_interrupt ==
    /\ pc \notin {"END", "raised"}
    /\ pc' = "raised"
    /\ raised' = "KeyboardInterrupt"
    /\ raised_text' = ""
    /\ UNCHANGED <<state, config, trace, calls, cli, resources>>

(***************************************************************************)
(* main, from the return of graph.invoke on: what the command prints and   *)
(* the code it exits with.  typer.Exit is an Exception, so an Exit raised  *)
(* inside the try is caught by the last except clause, which prints it     *)
(* and exits with code 1 again.                                            *)
(***************************************************************************)
\* the heading and one bulleted line per entry of final_state["errors"]
ErrorLines(errors) ==
    <<"Errors occurred during generation:">>
        \o [i \in 1..Len(errors) |-> "  * " \o errors[i]]

FatalLine(text) == "Fatal error: " \o text

\* the cancellation exits like any other failure
ExitCancelledAsFailure(code, output, gif_found) ==
    [exited |-> TRUE, exit_code |-> IF code = 130 THEN 1 ELSE code,
     output |-> output, gif_found |-> gif_found]

\* gif_found records what gif_file.exists() answered, FALSE when main did
\* not get to ask
Exit(code, output, gif_found) ==
    [exited |-> TRUE, exit_code |-> code, output |-> output,
     gif_found |-> gif_found]

\* main calls graph.invoke only when it was given a prompt or an input file
MainInvoked(st) == st.raw_input_type = "mermaid" \/ st.raw_input # <<>>

main ==
    /\ pc \in {"END", "raised"}
    /\ ~cli.exited
    /\ MainInvoked(state)
    /\ UNCHANGED <<state, config, pc, raised, raised_text, trace, calls, resources>>
    /\ IF pc = "raised" /\ raised = "KeyboardInterrupt"
       THEN cli' = Exit(130, <<"Operation cancelled by user.">>, FALSE)
       ELSE IF pc = "raised"
       THEN cli' = Exit(1, <<FatalLine(raised_text)>>, FALSE)
       ELSE IF state.errors # <<>>
       THEN cli' = Exit(1, ErrorLines(state.errors) \o <<FatalLine("1")>>,
                        FALSE)
       ELSE IF ~Truthy(state.gif_path)
       THEN cli' = Exit(1,
                <<"Error: GIF generation failed - no output path in state",
                  FatalLine("1")>>, FALSE)
       ELSE \/ \* gif_file.exists() is false
               cli' = Exit(1,
                   <<"Error: GIF file not found at out.gif", FatalLine("1")>>,
                   FALSE)
            \/ cli' = Exit(0, <<"Success! GIF saved to: out.gif">>, TRUE)

Next ==
    \/ input_router
    \/ intent_agent
    \/ mermaid_validator
    \/ mermaid_fix_agent
    \/ animation_planner
    \/ mermaid_renderer
    \/ animation_applicator
    \/ capture_controller
    \/ ffmpeg_transcoder
    \/ end_node
    \/ keyboard_interrupt
    \/ main

Spec == Init /\ [][Next]_vars

\* graph.invoke runs each scheduled node to completion, one after another
FairSpec == Spec /\ WF_vars(Next)

RunEnded == pc \in {"END", "raised"}

(***************************************************************************)
(* A stage called on its own: every node is a function from a GraphState   *)
(* to a GraphState and can be handed any record, as a test of one stage    *)
(* does.  The records enumerated below vary the fields the stages read.    *)
(***************************************************************************)
StageNodes ==
    {"input_router", "intent_agent", "mermaid_validator", "fix_mermaid",
     "animation_planner", "mermaid_renderer", "animation_applicator",
     "capture_controller", "ffmpeg_transcoder", "end_success"}

StageRecords ==
    {[raw_input |-> SrcGraphTD,
      raw_input_type |-> "mermaid",
      mermaid_code |-> code,
      animation_manifest |-> manifest,
      validation_errors |-> verrors,
      diagram_rendered |-> rendered,
      animation_applied |-> applied,
      video_path |-> video,
      gif_path |-> NoneStr,
      errors |-> <<>>,
      artifacts |-> {},
      retry_count |-> retries] :
        code \in {NoneStr, Str(SrcEmpty), Str(SrcNoType)},
        manifest \in {NoManifest, EmptyManifest, DefaultManifest},
        verrors \in {NoneList, List(<<>>), List(<<ErrorDict(MsgType, 1)>>)},
        rendered \in BOOLEAN,
        applied \in BOOLEAN,
        video \in {NoneStr, Str(VideoFile)},
        retries \in 0..MaxCeiling}

StageInit ==
    /\ state \in StageRecords
    /\ config \in Configs
    /\ pc \in StageNodes
    /\ raised = ""
    /\ raised_text = ""
    /\ trace = <<>>
    /\ calls = NoCalls
    /\ cli = NotExited
    /\ resources = {}

StageNext ==
    \/ input_router
    \/ intent_agent
    \/ mermaid_validator
    \/ mermaid_fix_agent
    \/ animation_planner
    \/ mermaid_renderer
    \/ animation_applicator
    \/ capture_controller
    \/ ffmpeg_transcoder
    \/ end_node

StageSpec == StageInit /\ [][StageNext]_vars
(***************************************************************************)
(* The exception classes of core/exceptions.py; the classes raised by      *)
(* Python itself and by Playwright derive from Exception directly.         *)
(***************************************************************************)
BaseOf(cls) ==
    CASE cls \in {"ValidationError", "RenderingError", "CaptureError",
                  "EncodingError", "RetryExhaustedError", "LLMError"} ->
             "MermaidGIFError"
      [] cls = "AnimationError" -> "RenderingError"
      [] cls \in {"FFmpegError", "GIFGenerationError"} -> "EncodingError"
      [] cls \in {"LLMTimeoutError", "LLMResponseError"} -> "LLMError"
      [] cls \in {"KeyboardInterrupt", "Exception"} -> "BaseException"
      [] OTHER -> "Exception"

RECURSIVE IsInstance(_, _)
IsInstance(cls, base) ==
    \/ cls = base
    \/ cls # "BaseException" /\ IsInstance(BaseOf(cls), base)

(***************************************************************************)
(* Observations on a run used by the properties below.                     *)
(***************************************************************************)
Last(seq) == seq[Len(seq)]

CountIn(seq, x) == Cardinality({i \in 1..Len(seq) : seq[i] = x})

Entered(node) == \E i \in 1..Len(trace) : trace[i] = node

\* the node whose exception ended the run, or "" when none did
FailedNode ==
    IF pc = "raised" /\ raised # "KeyboardInterrupt" /\ trace # <<>>
    THEN Last(trace) ELSE ""

Ceiling(n) == config.has_max_retry_attempts /\ config.max_retry_attempts = n

LLMErrorClasses == {"LLMError", "LLMTimeoutError", "LLMResponseError"}

\* the run ended because the repair budget ran out: the fix agent refused
\* a further attempt, or the retry edge routed to end_fail
EndedByExhaustion ==
    /\ RunEnded
    /\ \/ raised = "RetryExhaustedError"
       \/ Entered("end_fail")

(***************************************************************************)
(* C1: with retry ceiling 2, a run in which both collaborators always      *)
(* answer with a diagram source and the validator never accepts one ends   *)
(* in failure after exactly 2 external repair calls, and errors holds the  *)
(* retry-exhaustion message naming the ceiling 2.                          *)
(***************************************************************************)
C1_NeverValidRun ==
    /\ RunEnded
    /\ Ceiling(2)
    /\ ~Entered("animation_planner")
    /\ raised \notin LLMErrorClasses
                    \cup {"KeyboardInterrupt", "TypeError", "AttributeError"}
    /\ FailedNode # "mermaid_validator"

C2_RetryBound ==
    config.has_max_retry_attempts =>
        /\ state.retry_count <= config.max_retry_attempts
        /\ calls.fix_ok <= config.max_retry_attempts

C2_Witness ==
    /\ config.has_max_retry_attempts
    /\ config.max_retry_attempts >= 2
    /\ state.retry_count = config.max_retry_attempts
    /\ calls.fix_ok = config.max_retry_attempts
    /\ pc = "fix_mermaid"

(***************************************************************************)
(* C3: every run terminates: it reaches END through a terminal node or     *)
(* is aborted by a raised error; the validate/repair loop cannot cycle     *)
(* forever.                                                                *)
(***************************************************************************)
C3_Terminates == <>RunEnded

C3_Witness ==
    /\ RunEnded
    /\ CountIn(trace, "fix_mermaid") >= 2
    /\ CountIn(trace, "mermaid_validator") >= 2

(***************************************************************************)
(* C4: when a run ends, at a terminal node or by a stage failure that     *)
(* aborts it, exactly one of "gif_path is set" and "errors is non-empty"   *)
(* holds.  Stated for the runs whose source passed validation, the ones    *)
(* that reach the render, animate, capture and transcode stages, and not   *)
(* for a run the user cancelled.                                           *)
(***************************************************************************)
C4_ExactlyOneOutcome ==
    (RunEnded /\ Entered("animation_planner") /\ raised # "KeyboardInterrupt") =>
        (Truthy(state.gif_path) # (state.errors # <<>>))

(***************************************************************************)
(* C5: when a run with ceiling 2 ends by retry exhaustion, retry_count is  *)
(* 3 at the failing ceiling check, after 2 successful repair calls.        *)
(***************************************************************************)
C5_Original ==
    (EndedByExhaustion /\ Ceiling(2)) =>
        /\ state.retry_count = 3
        /\ calls.fix_ok = 2

(***************************************************************************)
(* C5 (amended): when a run with ceiling 2 ends by retry exhaustion,       *)
(* retry_count is 2 at the failing ceiling check, after 2 successful       *)
(* repair calls.                                                           *)
(***************************************************************************)
C5_CountAtExhaustion ==
    (EndedByExhaustion /\ Ceiling(2)) =>
        /\ state.retry_count = 2
        /\ calls.fix_ok = 2

C5_Witness ==
    /\ EndedByExhaustion
    /\ Ceiling(2)
    /\ FailedNode = "fix_mermaid"

(***************************************************************************)
(* C6: at every point of a run retry_count equals the number of times the  *)
(* repair stage has been invoked, whatever the outcome of each invocation. *)
(* Stated for the runs whose configuration provides the ceiling.           *)
(***************************************************************************)
C6_Original ==
    config.has_max_retry_attempts =>
        state.retry_count = CountIn(trace, "fix_mermaid")

(***************************************************************************)
(* C6 (amended): at every point of a run retry_count equals the number of  *)
(* repair-stage invocations that stored a response in the record; an       *)
(* invocation that fails before that leaves retry_count unchanged, and one *)
(* that fails on a stored null source (TypeError) has counted.             *)
(***************************************************************************)
C6_CountsCompletedRepairs ==
    state.retry_count =
        CountIn(trace, "fix_mermaid")
            - (IF FailedNode = "fix_mermaid" /\ raised # "TypeError"
               THEN 1 ELSE 0)

C6_Witness ==
    /\ FailedNode = "fix_mermaid"
    /\ raised \in LLMErrorClasses
    /\ state.retry_count = 1
    /\ CountIn(trace, "fix_mermaid") = 2

(***************************************************************************)
(* C7: the validation stage never aborts the run: for every diagram source *)
(* that reaches it, an empty one included, it returns its findings in      *)
(* validation_errors without raising.                                      *)
(***************************************************************************)
C7_ValidatorNeverRaises == FailedNode # "mermaid_validator"

(***************************************************************************)
(* C8: every failed run passes through the failure terminal end_fail       *)
(* before control returns to the caller (a run the user cancelled aside).  *)
(***************************************************************************)
C8_FailedRunsReachEndFail ==
    (/\ RunEnded
     /\ raised # "KeyboardInterrupt"
     /\ (raised # "" \/ state.errors # <<>> \/ ~Truthy(state.gif_path)))
        => Entered("end_fail")

(***************************************************************************)
(* C9: the graph takes exactly the transitions of the retry-controller     *)
(* table: the router goes to validation for a diagram-source input (with   *)
(* raw_input copied into mermaid_code and the default directive set) and   *)
(* to generation otherwise; generation is followed by validation;          *)
(* validation goes to planning when validation_errors is empty and to      *)
(* repair otherwise; a completed repair goes to end_fail when retry_count  *)
(* exceeds the ceiling and back to validation otherwise.                   *)
(***************************************************************************)
C9_Step ==
    /\ (pc = "input_router" /\ pc' # "raised") =>
          IF state.raw_input_type = "mermaid"
          THEN /\ pc' = "mermaid_validator"
               /\ state'.mermaid_code = Str(state.raw_input)
               /\ state'.animation_manifest = Manifest(5, "default")
          ELSE pc' = "intent_agent"
    /\ (pc = "intent_agent" /\ pc' # "raised") => pc' = "mermaid_validator"
    /\ (pc = "mermaid_validator" /\ pc' # "raised") =>
          IF state'.validation_errors.some /\ state'.validation_errors.val # <<>>
          THEN pc' = "fix_mermaid"
          ELSE pc' = "animation_planner"
    /\ (pc = "fix_mermaid" /\ pc' # "raised") =>
          IF state'.retry_count > config.max_retry_attempts
          THEN pc' = "end_fail"
          ELSE pc' = "mermaid_validator"

PipelineOrder ==
    <<"animation_planner", "mermaid_renderer", "animation_applicator",
      "capture_controller", "ffmpeg_transcoder", "end_success">>

\* the nodes entered from the first animation_planner on
PipelineTail ==
    IF Entered("animation_planner")
    THEN LET k == CHOOSE i \in 1..Len(trace) :
                      /\ trace[i] = "animation_planner"
                      /\ \A j \in 1..(i - 1) : trace[j] # "animation_planner"
         IN  SubSeq(trace, k, Len(trace))
    ELSE <<>>

C10_Linear ==
    /\ Len(PipelineTail) <= Len(PipelineOrder)
    /\ PipelineTail = SubSeq(PipelineOrder, 1, Len(PipelineTail))
    /\ \A i \in 1..Len(trace) :
           trace[i] \in {"mermaid_renderer", "animation_applicator",
                         "capture_controller", "ffmpeg_transcoder"}
               => Entered("animation_planner")
    /\ \A i \in 1..Len(trace) :
           trace[i] = "animation_planner" => (i > 1 /\ trace[i - 1] = "mermaid_validator")
    /\ CountIn(trace, "intent_agent") <= 1

\* after a failure only main acts, and it runs no stage
C10_Step ==
    /\ pc = "raised" => UNCHANGED <<state, pc, raised, trace, calls>>
    /\ C10_Linear'

C10_LinearPipeline == [][C10_Step]_vars

C10_Witness ==
    /\ FailedNode = "capture_controller"
    /\ PipelineTail = SubSeq(PipelineOrder, 1, 4)

(***************************************************************************)
(* C11: the animate and capture stages check their preconditions before    *)
(* touching the browser: animate called on a record with diagram_rendered  *)
(* false fails with AnimationError, and capture called on a record with    *)
(* animation_applied false fails with CaptureError, in both cases without  *)
(* a browser launch.                                                       *)
(***************************************************************************)
C11_Step ==
    /\ (pc = "animation_applicator" /\ ~state.diagram_rendered) =>
          /\ pc' = "raised"
          /\ raised' = "AnimationError"
          /\ raised_text' = MsgNotRendered
          /\ calls' = calls
    /\ (pc = "capture_controller" /\ ~state.animation_applied) =>
          /\ pc' = "raised"
          /\ raised' = "CaptureError"
          /\ raised_text' \in {MsgNotRenderedForCapture, MsgNotAnimated}
          /\ calls' = calls

C11_PreconditionsFirst == [][C11_Step]_vars

C11_Witness ==
    /\ FailedNode = "animation_applicator"
    /\ ~state.diagram_rendered
    /\ raised = "AnimationError"
    /\ calls.animation_browser = 0

(***************************************************************************)
(* C12: in every reachable state animation_applied is true only if         *)
(* diagram_rendered is true; diagram_rendered turns true only in a render  *)
(* stage that succeeds and animation_applied only in an animate stage      *)
(* that succeeds.                                                          *)
(***************************************************************************)
C12_Step ==
    /\ (~state.diagram_rendered /\ state'.diagram_rendered) =>
          (pc = "mermaid_renderer" /\ pc' = "animation_applicator")
    /\ (~state.animation_applied /\ state'.animation_applied) =>
          (pc = "animation_applicator" /\ pc' = "capture_controller")

C12_FlagsOrdered ==
    /\ [](state.animation_applied => state.diagram_rendered)
    /\ [][C12_Step]_vars

C12_Witness ==
    /\ state.animation_applied
    /\ state.diagram_rendered
    /\ pc = "capture_controller"

(***************************************************************************)
(* C13: the external repair call is made only where retry_count is below   *)
(* the ceiling and both mermaid_code and validation_errors are non-empty;  *)
(* with retry_count at or above the ceiling the repair stage fails with    *)
(* RetryExhaustedError, and with either input empty it fails locally, in   *)
(* both cases without an external call.  Stated for a repair stage called  *)
(* on any record under a configuration that provides the ceiling.          *)
(***************************************************************************)
C13_Step ==
    (pc = "fix_mermaid" /\ config.has_max_retry_attempts) =>
        LET below == state.retry_count < config.max_retry_attempts
            inputs == Truthy(state.mermaid_code) /\ Truthy(state.validation_errors)
        IN  /\ calls'.fix_llm # calls.fix_llm => (below /\ inputs)
            /\ ~below =>
                  /\ pc' = "raised"
                  /\ raised' = "RetryExhaustedError"
                  /\ calls' = calls
            /\ (below /\ ~inputs) =>
                  /\ pc' = "raised"
                  /\ calls' = calls

C14_Step ==
    (pc = "fix_mermaid" /\ pc' # "raised") =>
        /\ state'.mermaid_code \in MermaidPayloads
        /\ state'.retry_count = state.retry_count + 1
        /\ ~Truthy(state'.validation_errors)
        /\ \A f \in DOMAIN state \ {"mermaid_code", "retry_count", "validation_errors"} :
               state'[f] = state[f]

C14_RepairFrame == [][C14_Step]_vars

C14_Witness ==
    /\ pc = "mermaid_validator"
    /\ trace # <<>>
    /\ Last(trace) = "fix_mermaid"
    /\ state.mermaid_code = Str(SrcRepaired)
    /\ state.retry_count = 1
    /\ state.validation_errors = NoneList
    /\ state.raw_input = SrcNoType

(***************************************************************************)
(* C15: in a run whose input is a diagram source the generation stage is   *)
(* never invoked; and when that source passes its first validation the     *)
(* repair stage is never invoked either: the run goes from the router to   *)
(* validation, planning and render, as for "graph TD; A-->B;".             *)
(***************************************************************************)
C15_DirectPath ==
    <<"input_router", "mermaid_validator", "animation_planner",
      "mermaid_renderer">>

C15_SourceSkipsGeneration ==
    state.raw_input_type = "mermaid" =>
        /\ ~Entered("intent_agent")
        /\ calls.intent_llm = 0
        /\ validate_results[state.raw_input].is_valid =>
              /\ ~Entered("fix_mermaid")
              /\ calls.fix_llm = 0
              /\ \A i \in 1..Len(trace) :
                     i <= Len(C15_DirectPath) => trace[i] = C15_DirectPath[i]

C15_Witness ==
    /\ state.raw_input_type = "mermaid"
    /\ state.raw_input = SrcGraphTD
    /\ Len(trace) >= 4
    /\ SubSeq(trace, 1, 4) = C15_DirectPath
    /\ state.diagram_rendered

(***************************************************************************)
(* C16: for the diagram-source input "A[Step (1)] --> B[End]", which has   *)
(* no type declaration, the first validation reports at least the          *)
(* missing-type error and the repair stage is invoked on the record that   *)
(* holds the reported errors; when the repair returns a valid source the   *)
(* next validation passes and the run goes on to animation planning with   *)
(* retry_count = 1.                                                        *)
(***************************************************************************)
C16_UntypedSourceRepaired ==
    (state.raw_input_type = "mermaid" /\ state.raw_input = SrcNoType) =>
        /\ (Len(trace) = 2 /\ raised # "KeyboardInterrupt") =>
              /\ trace = <<"input_router", "mermaid_validator">>
              /\ pc = "fix_mermaid"
              /\ state.validation_errors = validate_results[SrcNoType].errors
              /\ \E i \in DOMAIN state.validation_errors.val :
                     state.validation_errors.val[i].message = MsgType
        /\ Len(trace) >= 3 => trace[3] = "fix_mermaid"
        /\ (/\ Len(trace) = 4
            /\ pc # "raised"
            /\ state.mermaid_code.some
            /\ validate_results[state.mermaid_code.val].is_valid) =>
              /\ trace[4] = "mermaid_validator"
              /\ pc = "animation_planner"
              /\ state.retry_count = 1
              /\ state.validation_errors = NoneList
        /\ (Len(trace) >= 5 /\ trace[5] = "animation_planner") =>
              state.retry_count = 1

C16_Witness ==
    /\ state.raw_input_type = "mermaid"
    /\ state.raw_input = SrcNoType
    /\ trace = <<"input_router", "mermaid_validator", "fix_mermaid",
                 "mermaid_validator", "animation_planner">>
    /\ state.mermaid_code = Str(SrcRepaired)
    /\ state.retry_count = 1
    /\ calls.fix_llm = 1

(***************************************************************************)
(* C17: when the generation call times out the run fails with exactly one  *)
(* entry in errors, which mentions the timeout; gif_path stays absent, no  *)
(* later stage runs, and the command line exits with code 1.               *)
(***************************************************************************)
C17_TimedOut == FailedNode = "intent_agent" /\ raised = "LLMTimeoutError"

C17_GenerationTimeout ==
    C17_TimedOut =>
        /\ state.errors =
               <<"Intent agent failed: LLM request timed out: <timeout>">>
        /\ ~Truthy(state.gif_path)
        /\ trace = <<"input_router", "intent_agent">>
        /\ calls.intent_llm = 1
        /\ cli.exited => cli.exit_code = 1

C17_Witness ==
    /\ C17_TimedOut
    /\ cli.exited
    /\ cli.exit_code = 1
    /\ Len(state.errors) = 1

(***************************************************************************)
(* C18: every run that reaches end_success has gif_path and video_path     *)
(* set, diagram_rendered and animation_applied true, mermaid_code and      *)
(* animation_manifest present and errors empty; for a text input the       *)
(* generation call was made exactly once.                                  *)
(***************************************************************************)
C18_SuccessRecord ==
    (pc = "end_success" \/ Entered("end_success")) =>
        /\ Truthy(state.gif_path)
        /\ Truthy(state.video_path)
        /\ state.diagram_rendered
        /\ state.animation_applied
        /\ Truthy(state.mermaid_code)
        /\ state.animation_manifest.some
        /\ state.errors = <<>>
        /\ state.raw_input_type = "text" => calls.intent_llm = 1

C18_Witness ==
    /\ pc = "END"
    /\ Entered("end_success")
    /\ state.raw_input_type = "text"
    /\ calls.intent_llm = 1
    /\ state.gif_path = Str(GifFile)

(***************************************************************************)
(* C19: every fatal failure of the generation, repair, render, animate,    *)
(* capture or transcode stage appends a message to errors before the       *)
(* failure leaves the stage.  Stated for the runs whose configuration      *)
(* provides the ceiling; a cancellation by the user is not a stage         *)
(* failure.                                                                *)
(***************************************************************************)
C19_Stages ==
    {"intent_agent", "fix_mermaid", "mermaid_renderer",
     "animation_applicator", "capture_controller", "ffmpeg_transcoder"}

C19_Step ==
    (/\ pc \in C19_Stages
     /\ pc' = "raised"
     /\ raised' # "KeyboardInterrupt"
     /\ config.has_max_retry_attempts) =>
        /\ Len(state'.errors) = Len(state.errors) + 1
        /\ SubSeq(state'.errors, 1, Len(state.errors)) = state.errors

C19_FailuresRecorded == [][C19_Step]_vars

(***************************************************************************)
(* C20: when a run fails, the command line prints every message held in    *)
(* errors, in the order in which they were appended, and not only the      *)
(* first message or the text of the raised exception.                      *)
(***************************************************************************)
C20_ErrorsSurfaced ==
    (cli.exited /\ cli.exit_code # 0) =>
        \E k \in 0..Len(cli.output) :
            /\ k + Len(state.errors) <= Len(cli.output)
            /\ \A i \in 1..Len(state.errors) :
                   cli.output[k + i] \in
                       {"  * " \o state.errors[i], FatalLine(state.errors[i])}

(***************************************************************************)
(* C21: the exit code of the command line is a function of the outcome of  *)
(* the run: 0 exactly when the run produced its output file (the           *)
(* transcoder saw it exist and be non-empty), main still finds it, and no  *)
(* error was accumulated; 1 whenever an error was accumulated or a stage   *)
(* failed; 130 when the user cancelled.                                    *)
(***************************************************************************)
C21_Produced ==
    /\ pc = "END"
    /\ Entered("ffmpeg_transcoder")
    /\ Truthy(state.gif_path)
    /\ cli.gif_found

C22_StageKind ==
    /\ FailedNode = "mermaid_renderer" => IsInstance(raised, "RenderingError")
    /\ FailedNode = "animation_applicator" => IsInstance(raised, "AnimationError")
    /\ FailedNode = "capture_controller" => IsInstance(raised, "CaptureError")
    /\ FailedNode = "ffmpeg_transcoder" => IsInstance(raised, "EncodingError")

(***************************************************************************)
(* C23: every external resource a stage acquires (browser driver,          *)
(* browser, context, page) is released by the time the stage exits, on     *)
(* success and on every failure path, a failure part-way through the       *)
(* acquisition included: between stages nothing is held.                   *)
(***************************************************************************)
C23_NothingHeld == resources = {}

(***************************************************************************)
(* C24: the retry ceiling is a defined configuration input whose default   *)
(* is 2: in a run with no ceiling configured the repair stage compares     *)
(* retry_count against 2, refusing with RetryExhaustedError from 2 on and  *)
(* attempting the repair below 2, and the retry edge after a repair        *)
(* routes by the same ceiling.                                             *)
(***************************************************************************)
C24_Step ==
    (/\ ~config.has_max_retry_attempts
     /\ pc = "fix_mermaid"
     /\ raised' # "KeyboardInterrupt") =>
        /\ raised' # "AttributeError"
        /\ raised' = "RetryExhaustedError" <=> state.retry_count >= 2
        /\ pc' # "raised" =>
              pc' = (IF state'.retry_count > 2
                     THEN "end_fail" ELSE "mermaid_validator")

C24_DefaultCeiling == [][C24_Step]_vars

\* ---------------------------------------------------------------------
\* The validator as a pure function (engine/mermaid_validator.py 38-132):
\* sources assembled from a pool of lines, each validated once.
\* ---------------------------------------------------------------------
MaxLines == 3

LineBlank ==
    <<>>

LineGraph ==
    <<"g", "r", "a", "p", "h", " ", "T", "D">>

LineOpen ==
    <<"A", "[", "x">>

LineEdge ==
    <<"A", "[", "x", "]", " ", "-", "-", ">", " ", "B", "(", "y", ")">>

LineComment ==
    <<"%", "%", " ", "n", "o", "t", "e", " ", "(">>

LineErDiagram ==
    <<"e", "r", "D", "i", "a", "g", "r", "a", "m">>

LineErRelation ==
    <<"T", " ", "|", "|", "-", "-", "o", "{", " ", "D", " ", ":", " ", "h",
    "a", "s">>

LinePool ==
    {LineBlank, LineGraph, LineOpen, LineEdge, LineComment, LineErDiagram,
     LineErRelation}

RECURSIVE JoinLines(_)
JoinLines(ls) ==
    IF Len(ls) = 1 THEN ls[1]
    ELSE ls[1] \o <<"\n">> \o JoinLines(Tail(ls))

ValidatorSources ==
    {JoinLines(ls) : ls \in UNION {[1..n -> LinePool] : n \in 1..MaxLines}}

ValidateInit ==
    /\ \E src \in ValidatorSources :
         state = [create_initial_state(src, "mermaid")
                    EXCEPT !.mermaid_code = Str(src)]
    /\ config = [has_max_retry_attempts |-> FALSE, max_retry_attempts |-> 0]
    /\ pc = "validate"
    /\ raised = ""
    /\ raised_text = ""
    /\ trace = <<>>
    /\ calls = NoCalls
    /\ cli = NotExited
    /\ resources = {}

validate_call ==
    /\ pc = "validate"
    /\ state' = [state EXCEPT
                   !.validation_errors =
                       validate(state.mermaid_code.val).errors]
    /\ pc' = "validated"
    /\ UNCHANGED <<config, raised, raised_text, trace, calls, cli, resources>>

ValidateNext == validate_call

ValidateSpec == ValidateInit /\ [][ValidateNext]_vars

Validated == pc = "validated"

\* the lines of the source as given, and the line the validator takes the
\* diagram type from
SourceLines(mermaid_code) == Split(mermaid_code, "\n")
IsComment(line) == StartsWith(Strip(line), <<"%", "%">>)
Unbalanced(line, first_line) ==
    LET l == LineWithoutEr(Strip(line), first_line)
    IN  Strip(line) # <<>> /\ ~IsComment(line)
        /\ OpenBrackets(l) # CloseBrackets(l)
ReportedAt(errors, msg, n) ==
    \E k \in 1..Len(errors.val) :
        errors.val[k].message = msg /\ errors.val[k].line = n

\* C25: once a source is validated, every line of it whose brackets are
\* unbalanced (comment lines aside, ER-cardinality tokens removed in an ER
\* diagram) has a bracket-mismatch error carrying that line's 1-based
\* number in the source.
C25_BracketLineReported ==
    Validated =>
        LET src == state.mermaid_code.val
            lines == SourceLines(src)
            first_line == FirstLine(Split(Strip(src), "\n"))
        IN  \A i \in 1..Len(lines) :
                Unbalanced(lines[i], first_line) =>
                    ReportedAt(state.validation_errors, MsgBrackets, i)

\* the first line that is not a %% comment, or the empty line when every
\* line is a comment
RECURSIVE FirstNonComment(_)
FirstNonComment(lines) ==
    IF lines = <<>> THEN <<>>
    ELSE IF IsComment(lines[1]) THEN FirstNonComment(Tail(lines))
    ELSE lines[1]

HasTypeError(errors) ==
    errors.some /\ \E k \in 1..Len(errors.val) : errors.val[k].message = MsgType

\* C26: for a validated non-blank source, a missing-type error is reported
\* exactly when the first non-comment line does not begin with a recognized
\* diagram-type keyword, leading comment lines being skipped.
C26_MissingType ==
    (Validated /\ Strip(state.mermaid_code.val) # <<>>) =>
        LET lines == Split(Strip(state.mermaid_code.val), "\n")
            type_line == Lower(Strip(FirstNonComment(lines)))
        IN  HasTypeError(state.validation_errors) <=> ~HasValidType(type_line)

\* the numbered list the claim describes, built from each descriptor's own
\* kind, line and message
RECURSIVE NumberedFrom(_, _)
NumberedFrom(errors, i) ==
    LET entry == ToString(i) \o ". [" \o errors[i].type \o "] Line "
                     \o ToString(errors[i].line) \o ": " \o errors[i].message
    IN  IF i = Len(errors) THEN entry
        ELSE entry \o "\n" \o NumberedFrom(errors, i + 1)

HasKindMessageLine(error) == {"type", "message", "line"} \subseteq DOMAIN error

FixRequested == pc = "fix_mermaid" /\ calls'.fix_llm > calls.fix_llm

\* C27: when the fix agent sends a repair request, every descriptor in
\* validation_errors carries a kind label, a message and a line number,
\* and the request lists them in order as "<i>. [kind] Line <n>: <message>"
\* with each descriptor's own kind, line and message.
C27_Step ==
    FixRequested =>
        LET errors == state.validation_errors.val
        IN  /\ \A k \in 1..Len(errors) : HasKindMessageLine(errors[k])
            /\ calls'.fix_request = NumberedFrom(errors, 1)
C27_RepairRequest == [][C27_Step]_vars

DirectiveStages == {"mermaid_renderer", "animation_applicator",
                    "capture_controller"}

\* C28: whenever the render, animate or capture stage is about to run in a
\* pipeline run, animation_manifest is neither absent nor empty, and it is
\* {duration: 5.0, preset: default} when the input was diagram source or
\* the generation response carried no animation member.
C28_DirectivePresent ==
    pc \in DirectiveStages =>
        /\ ManifestTruthy(state.animation_manifest)
        /\ (state.raw_input_type = "mermaid"
              \/ calls.intent_animation = "absent")
               => state.animation_manifest = Manifest(5, "default")

\* the capture stage is reached after a generation response without an
\* animation member
C28_Witness ==
    /\ pc = "capture_controller"
    /\ state.raw_input_type = "text"
    /\ calls.intent_animation = "absent"
    /\ state.animation_manifest = DefaultManifest

GenerationFailed ==
    pc = "intent_agent" /\ pc' = "raised" /\ raised' # "KeyboardInterrupt"

ResponseErrorTexts ==
    {"Failed to parse LLM response as JSON: <error>",
     "LLM response missing 'mermaid' key"}

\* C29: a failing generation stage makes no external call when raw_input is
\* empty, raises a response error when the response is not parseable JSON
\* or lacks the "mermaid" member, and in every case leaves mermaid_code and
\* animation_manifest unset.
C29_Step ==
    GenerationFailed =>
        /\ state.raw_input = <<>> => calls' = calls
        /\ raised_text' \in ResponseErrorTexts => raised' = "LLMResponseError"
        /\ ~state'.mermaid_code.some
        /\ ~state'.animation_manifest.some
C29_GenerationFailure == [][C29_Step]_vars

FixCompleted ==
    /\ pc = "fix_mermaid"
    /\ pc' \notin {"fix_mermaid", "raised"}
    /\ config.has_max_retry_attempts /\ config.max_retry_attempts = 2

\* C30: with the ceiling at its documented value 2, when the fix stage has
\* completed the controller goes back to the validator if the retry_count
\* it left is below 2 and to end_fail if it is 2 or more.
C30_Step ==
    FixCompleted =>
        /\ state'.retry_count < 2 => pc' = "mermaid_validator"
        /\ state'.retry_count >= 2 => pc' = "end_fail"
C30_RetryRouting == [][C30_Step]_vars

\* what validating the record's current mermaid_code yields
CurrentFindings ==
    LET r == validate_results[state.mermaid_code.val]
    IN  IF r.is_valid THEN NoneList ELSE r.errors

\* C31: whenever the repair stage is about to read validation_errors, or
\* the controller has routed on it, its value is the result of validating
\* the current mermaid_code; after a successful repair it is absent until
\* the validator runs again.
C31_NeverStale ==
    /\ pc = "fix_mermaid" =>
           /\ Truthy(state.validation_errors)
           /\ state.validation_errors = CurrentFindings
    /\ pc = "animation_planner" =>
           /\ ~state.validation_errors.some
           /\ state.validation_errors = CurrentFindings
    /\ (pc = "mermaid_validator" /\ trace # <<>>
          /\ Last(trace) = "fix_mermaid") =>
           ~state.validation_errors.some

\* the repair stage is about to read the findings of revalidating a
\* repaired source
C31_Witness ==
    /\ pc = "fix_mermaid"
    /\ state.retry_count = 1
    /\ state.validation_errors = CurrentFindings

StageSucceeded(node) == pc = node /\ pc' \notin {node, "raised"}

\* C32: a stage that succeeds has written its declared outputs: render
\* sets diagram_rendered and stores the rendered markup in artifacts,
\* animate sets animation_applied and stores the animated markup in
\* artifacts, capture sets video_path and stores the video byte size,
\* transcode sets gif_path.
C32_Step ==
    /\ StageSucceeded("mermaid_renderer") =>
           /\ state'.diagram_rendered
           /\ "render_html" \in state'.artifacts
    /\ StageSucceeded("animation_applicator") =>
           /\ state'.animation_applied
           /\ state'.artifacts # state.artifacts
    /\ StageSucceeded("capture_controller") =>
           /\ Truthy(state'.video_path)
           /\ "video_size_bytes" \in state'.artifacts
    /\ StageSucceeded("ffmpeg_transcoder") =>
           Truthy(state'.gif_path)
C32_StageOutputs == [][C32_Step]_vars

\* C33: the directive's duration governs the tail of the pipeline: the
\* animation effect, the recording the capture stage asks for and the clip
\* transcoded into the GIF all use animation_manifest's duration.
C33_DurationGoverns ==
    LET duration == state.animation_manifest.duration
    IN  /\ calls.effect_period # 0 => calls.effect_period = duration
        /\ calls.capture_duration # 0 => calls.capture_duration = duration
        /\ calls.clip_duration # 0 => calls.clip_duration = duration

RecordFields ==
    {"mermaid_code", "errors", "raw_input", "raw_input_type",
     "animation_manifest", "validation_errors", "diagram_rendered",
     "animation_applied", "video_path", "gif_path", "artifacts",
     "retry_count"}

\* the fields of the record on which st2 differs from st1
Changed(st1, st2) == {f \in RecordFields : st1[f] # st2[f]}

GenerationRan == pc = "intent_agent" /\ pc' # "intent_agent"
                     /\ raised' # "KeyboardInterrupt"

\* C34: a generation stage that succeeds changes no field other than
\* mermaid_code and animation_manifest; one that fails appends exactly one
\* message to errors and changes nothing else.
C34_Step ==
    GenerationRan =>
        IF pc' = "raised"
        THEN /\ Changed(state, state') = {"errors"}
             /\ Len(state'.errors) = Len(state.errors) + 1
             /\ SubSeq(state'.errors, 1, Len(state.errors)) = state.errors
        ELSE Changed(state, state')
                 \subseteq {"mermaid_code", "animation_manifest"}
C34_GenerationFrame == [][C34_Step]_vars

\* the validator node run once more on the record it left
Revalidated(st) ==
    IF ~Truthy(st.mermaid_code)
    THEN ValidatorFail(st, "No Mermaid code in state")
    ELSE ValidatorResult(st)

ValidationRan ==
    /\ pc = "mermaid_validator" /\ pc' # "mermaid_validator"
    /\ raised' # "KeyboardInterrupt"
    /\ state.mermaid_code.some

\* C35: the validation stage writes no field of the record other than
\* validation_errors, and run a second time on the record it left, with
\* mermaid_code unchanged, it yields the same validation_errors.
C35_Step ==
    ValidationRan =>
        /\ Changed(state, state') \subseteq {"validation_errors"}
        /\ Revalidated(state').validation_errors = state'.validation_errors
C35_ValidatorIdempotent == [][C35_Step]_vars

\* C36: in every state of a run started from a record made by
\* create_initial_state, errors holds at most one message.
C36_AtMostOneError == Len(state.errors) <= 1

\* a run ended by a stage that recorded its failure
C36_Witness ==
    /\ pc = "raised"
    /\ Len(state.errors) = 1
    /\ FailedNode = "fix_mermaid"

\* the repair stage raised from inside its try block: the configuration
\* supplies the ceiling and validation_errors is a list, so the two
\* statements ahead of the try have passed
RepairFailedInBody ==
    /\ pc = "fix_mermaid" /\ pc' = "raised"
    /\ raised' # "KeyboardInterrupt"
    /\ config.has_max_retry_attempts
    /\ state.validation_errors.some

\* C37: a repair-stage invocation that fails inside its guarded body leaves
\* mermaid_code, retry_count and validation_errors (and every other field)
\* unchanged and appends exactly one message to errors.
C37_Step ==
    RepairFailedInBody =>
        /\ Changed(state, state') = {"errors"}
        /\ Len(state'.errors) = Len(state.errors) + 1
        /\ SubSeq(state'.errors, 1, Len(state.errors)) = state.errors
C37_FailedRepairFrame == [][C37_Step]_vars

\* the source has a non-comment line whose opening and closing brackets
\* differ in number, counted on the line as written
HasOddLine ==
    [s \in Sources |->
        \E i \in 1..Len(SourceLines(s)) :
            LET stripped == Strip(SourceLines(s)[i])
            IN  /\ stripped # <<>> /\ ~IsComment(stripped)
                /\ OpenBrackets(stripped) # CloseBrackets(stripped)]

\* the same with the ER-cardinality tokens of an ER diagram left out of the
\* count
HasUnbalancedLine ==
    [s \in Sources |->
        \E i \in 1..Len(SourceLines(s)) :
            Unbalanced(SourceLines(s)[i],
                       FirstLine(Split(Strip(s), "\n")))]

\* the run has left the validate/repair loop on the success path
PastValidation ==
    pc \in {"animation_planner", "mermaid_renderer", "animation_applicator",
            "capture_controller", "ffmpeg_transcoder", "end_success"}

\* C38: a source containing a non-comment line whose count of opening
\* brackets differs from its count of closing brackets never leaves the
\* validate/repair loop on the success path.
C38_Original ==
    PastValidation => ~HasOddLine[state.mermaid_code.val]

\* C38 (amended): a source containing a non-comment line whose opening and
\* closing brackets differ in number, the ER-cardinality tokens of an ER
\* diagram not counted, never leaves the validate/repair loop on the
\* success path, even when its brackets balance over the whole source.
C38_PerLineBalance ==
    PastValidation => ~HasUnbalancedLine[state.mermaid_code.val]

\* a source whose brackets balance over the whole text but not on each
\* line has been rejected and sent to repair
C38_Witness ==
    /\ pc = "fix_mermaid"
    /\ state.mermaid_code.val = SrcBlock
    /\ OpenBrackets(SrcBlock) = CloseBrackets(SrcBlock)
    /\ HasUnbalancedLine[SrcBlock]
    /\ ReportedAt(state.validation_errors, MsgBrackets, 2)

=============================================================================
